---- MODULE Spec2Model ----
(***************************************************************************)
(* Feed ingestion and deduplication engine of the RSS bot:                 *)
(*   rss_manager.py  RSSManager (dedup index, fetch, check_all_feeds)      *)
(*   bot.py          RSSBot.feed_check_loop, process_and_post_articles,    *)
(*                   RSSCog.check_now                                      *)
(* The asyncio event loop runs one coroutine at a time; control changes    *)
(* hands only at an await.  Every action below is the code executed from   *)
(* one suspension point to the next.                                       *)
(***************************************************************************)
EXTENDS Integers, Sequences, FiniteSets, TLC

VARIABLES
    feeds,               \* config_manager.config["feeds"], in dict order
    processed_articles,  \* RSSManager.processed_articles: hash -> timestamp
    disk,                \* content of processed_articles.json
    now,                 \* datetime.now(), in days
    alive,               \* the process is running
    pc,                  \* per coroutine: where it is suspended
    tasks,               \* per coroutine: check_all_feeds' tasks list
    idx,                 \* per coroutine: position in tasks (1-based)
    results,             \* per coroutine: check_all_feeds' results dict
    queue,               \* per coroutine: (feed_id, articles) still to deliver
    emitted,             \* history: (title, link) -> times returned as new
    durable,             \* history: hashes whose mark_article_processed returned
    persisted,           \* history: a mark/cleanup has finished in this run
    cycles,              \* history: cycles feed_check_loop has begun, modulo 2
    interval,            \* config["default_check_interval"], in minutes
    check_interval,      \* feed_check_loop's local check_interval
    superseded,          \* the feed_check_task start_feed_checking replaced
    run                  \* the harness of the single-call specifications

vars == << feeds, processed_articles, disk, now, alive, pc, tasks, idx,
           results, queue, emitted, durable, persisted, cycles, interval,
           check_interval, superseded, run >>

----------------------------------------------------------------------------
(* Bounds of the model *)

MaxClock == 1        \* the clock runs over 0..MaxClock
MaxEntries == 2      \* a feed of the running system has up to MaxEntries entries
MaxPassEntries == 2  \* a feed of the single-call specifications: up to MaxPassEntries

(* Program constants *)

DefaultMaxArticles == 10     \* get_new_articles(max_articles=10)
DefaultCheckInterval == 15   \* config.get('default_check_interval', 15)

----------------------------------------------------------------------------
(* Values *)

Missing == "<missing>"       \* a key the feed entry does not carry

\* Feed entries as feedparser yields them (only the keys the hash reads).
\* The first two differ as (title, link) and agree as "title|link".
EntryPool ==
    { [title |-> "a",     link |-> "b|c"],
      [title |-> "a|b",   link |-> "c"],
      [title |-> Missing, link |-> Missing] }

RECURSIVE Repeat(_, _)
Repeat(e, n) == IF n = 0 THEN << >> ELSE << e >> \o Repeat(e, n - 1)

RECURSIVE SeqsUpTo(_, _)
SeqsUpTo(S, n) ==
    IF n = 0 THEN { << >> }
    ELSE LET shorter == SeqsUpTo(S, n - 1)
         IN shorter \cup { Append(s, e) : s \in shorter, e \in S }

\* What a successful fetch may parse to: every short feed, and feeds one
\* entry longer than the cap (max_articles copies of x, then y).
ShortFeeds == SeqsUpTo(EntryPool, MaxEntries)

FeedContents ==
    SeqsUpTo(EntryPool, MaxPassEntries)
    \cup { Repeat(xy[1], DefaultMaxArticles) \o << xy[2] >> :
             xy \in { p \in EntryPool \X EntryPool : p[1] # p[2] } }

NoFeed == << [title |-> "<none>", link |-> "<none>"] >>   \* fetch_feed -> None

\* A timestamp string of the index file.
IsoFormat(t) == [iso |-> TRUE, t |-> t]       \* datetime.isoformat()
Garbage == [iso |-> FALSE, t |-> 0]            \* anything fromisoformat rejects

EmptyIndex == [k \in {} |-> Garbage]

\* The index file: absent, unparsable, or a JSON object.
Absent == [kind |-> "absent", data |-> EmptyIndex]
Corrupt == [kind |-> "corrupt", data |-> EmptyIndex]
Json(pa) == [kind |-> "json", data |-> pa]
\* A file open() refuses to read, and a path that is a directory.
Unreadable == [kind |-> "unreadable", data |-> EmptyIndex]
Directory == [kind |-> "dir", data |-> EmptyIndex]

----------------------------------------------------------------------------
(* RSSManager: the dedup index *)

LoadRaised == [raised |-> TRUE]

load_processed_articles_NoTry(dk) ==
    IF dk.kind = "json" THEN dk.data
    ELSE IF dk.kind \in {"corrupt", "unreadable"} THEN LoadRaised
    ELSE EmptyIndex

\* isfile is false for an absent path and for a directory; open or
\* json.load raising is caught (lines 28-33).
load_processed_articles(dk) ==
    IF dk.kind = "json" THEN dk.data ELSE EmptyIndex

\* RSSManager.__init__, lines 14-23.  fs: what lies at each path.
DefaultFile == "processed_articles.json"
PathJoin(dir, name) == dir \o "/" \o name

RSSManager_init(fs) ==
    LET file == IF fs[DefaultFile].kind = "dir"
                THEN PathJoin(DefaultFile, "data.json") ELSE DefaultFile
    IN [processed_articles_file |-> file,
        processed_articles |-> load_processed_articles(fs[file])]

\* open(..., 'w') truncates, json.dump then writes.  how = "ok": both done;
\* "open_fails": open raises, file untouched; "write_fails": the dump raises
\* after the truncation; "crash": the process dies after the truncation.
save_processed_articles(pa, dk, how) ==
    CASE how = "ok"          -> [outcome |-> "ok",      dk |-> Json(pa)]
      [] how = "open_fails"  -> [outcome |-> "raised",  dk |-> dk]
      [] how = "write_fails" -> [outcome |-> "raised",  dk |-> Corrupt]
      [] how = "crash"       -> [outcome |-> "crashed", dk |-> Corrupt]

SaveSuspends_Await == TRUE

\* save_processed_articles is a plain function: between its open and the end
\* of json.dump there is no await, so no other coroutine runs.
SaveSuspends == FALSE

generate_article_hash(title, link) == title \o "|" \o link

is_article_processed_ByTitle(pa, title, link) == title \in DOMAIN pa

is_article_processed_Never(pa, title, link) == FALSE

is_article_processed(pa, title, link) ==
    generate_article_hash(title, link) \in DOMAIN pa

Put(pa, h, v) == [k \in DOMAIN pa \cup {h} |-> IF k = h THEN v ELSE pa[k]]

mark_article_processed_NoInsert(pa, dk, title, link, t, how) ==
    LET sv == save_processed_articles(pa, dk, how)
    IN [outcome |-> sv.outcome, dk |-> sv.dk, pa |-> pa]

mark_article_processed_Replace(pa, dk, title, link, t, how) ==
    LET h == generate_article_hash(title, link)
        pa2 == [k \in {h} |-> IsoFormat(t)]
        sv == save_processed_articles(pa2, dk, how)
    IN [outcome |-> sv.outcome, dk |-> sv.dk, pa |-> pa2]

\* The memory is updated first; the save's outcome is the call's outcome.
mark_article_processed(pa, dk, title, link, t, how) ==
    LET h == generate_article_hash(title, link)
        pa2 == Put(pa, h, IsoFormat(t))
        sv == save_processed_articles(pa2, dk, how)
    IN [outcome |-> sv.outcome, dk |-> sv.dk, pa |-> pa2]

----------------------------------------------------------------------------
(* RSSManager.get_new_articles *)

EntryTitle(e) == IF e.title = Missing THEN "No Title" ELSE e.title
EntryLink(e) == IF e.link = Missing THEN "" ELSE e.link

Take(s, n) == SubSeq(s, 1, IF Len(s) < n THEN Len(s) ELSE n)

\* The fault of a pass: its at-th save ends as how (at = 0: none does).
NoFault == [at |-> 0, how |-> "ok"]
Faults ==
    {NoFault} \cup [at : 1..2, how : {"open_fails", "write_fails", "crash"}]

\* for entry in feed.entries[:max_articles], from entry i on.  st carries
\* the index, the file, new_articles, the hashes passed to
\* mark_article_processed and the number of saves so far.
RECURSIVE ProcessEntries(_, _, _, _, _, _)
ProcessEntries(es, i, st, feed_url, t, fault) ==
    IF i > Len(es)
    THEN [status |-> "returned", articles |-> st.articles, pa |-> st.pa,
          dk |-> st.dk, marks |-> st.marks, saved |-> st.marks]
    ELSE
      LET title == EntryTitle(es[i])
          link == EntryLink(es[i])
      IN IF is_article_processed(st.pa, title, link)
         THEN ProcessEntries(es, i + 1, st, feed_url, t, fault)
         ELSE
           LET article == [title |-> title, link |-> link,
                           feed_url |-> feed_url]
               n == st.saves + 1
               how == IF fault.at = n THEN fault.how ELSE "ok"
               m == mark_article_processed(st.pa, st.dk, title, link, t, how)
               marks2 == Append(st.marks, generate_article_hash(title, link))
           IN IF m.outcome = "ok"
              THEN ProcessEntries(es, i + 1,
                     [pa |-> m.pa, dk |-> m.dk,
                      articles |-> Append(st.articles, article),
                      marks |-> marks2, saves |-> n],
                     feed_url, t, fault)
              ELSE [status |-> m.outcome, articles |-> << >>, pa |-> m.pa,
                    dk |-> m.dk, marks |-> marks2, saved |-> st.marks]

get_new_articles_NoCap(fetched, feed_url, max_articles, pa, dk, t, fault) ==
    IF fetched = NoFeed
    THEN [status |-> "returned", articles |-> << >>, pa |-> pa, dk |-> dk,
          marks |-> << >>, saved |-> << >>]
    ELSE ProcessEntries(fetched, 1,
           [pa |-> pa, dk |-> dk, articles |-> << >>, marks |-> << >>,
            saves |-> 0],
           feed_url, t, fault)

get_new_articles_Reversed(fetched, feed_url, max_articles, pa, dk, t, fault) ==
    LET r == get_new_articles_NoCap(Take(fetched, max_articles), feed_url,
                                    max_articles, pa, dk, t, fault)
    IN [r EXCEPT !.articles =
          [i \in 1..Len(r.articles) |-> r.articles[Len(r.articles) + 1 - i]]]

\* fetched is what fetch_feed returned: NoFeed (None) or the parsed entries.
\* status: "returned", "raised" (the save raised) or "crashed".
get_new_articles(fetched, feed_url, max_articles, pa, dk, t, fault) ==
    IF fetched = NoFeed
    THEN [status |-> "returned", articles |-> << >>, pa |-> pa, dk |-> dk,
          marks |-> << >>, saved |-> << >>]
    ELSE ProcessEntries(Take(fetched, max_articles), 1,
           [pa |-> pa, dk |-> dk, articles |-> << >>, marks |-> << >>,
            saves |-> 0],
           feed_url, t, fault)

\* What session.get and feedparser.parse may do: a 200 response whose body
\* parses to entries, another status, or an exception (connection error,
\* timeout=30 expiring, parse raising).
Response(kind, entries) == [kind |-> kind, entries |-> entries]

Responses ==
    { Response("ok", es) : es \in ShortFeeds }
    \cup { Response(k, << >>) :
             k \in {"http_error", "network_error", "timeout", "parse_error"} }

FetchRaised == << [title |-> "<raised>", link |-> "<raised>"] >>

fetch_feed_NoCatch(resp) ==
    IF resp.kind = "ok" THEN resp.entries
    ELSE IF resp.kind = "http_error" THEN NoFeed ELSE FetchRaised

\* Lines 62-73: the try covers the session, the request and the parse.
fetch_feed(resp) == IF resp.kind = "ok" THEN resp.entries ELSE NoFeed

\* get_new_articles from its first line: line 77 awaits fetch_feed; an
\* exception of it would leave get_new_articles.
FetchAndProcess(resp, feed_url, max_articles, pa, dk, t, fault) ==
    LET feed == fetch_feed(resp)
    IN IF feed = FetchRaised
       THEN [status |-> "raised", articles |-> << >>, pa |-> pa, dk |-> dk,
             marks |-> << >>, saved |-> << >>, feed |-> feed]
       ELSE [feed |-> feed] @@
            get_new_articles(feed, feed_url, max_articles, pa, dk, t, fault)

----------------------------------------------------------------------------
(* RSSManager.validate_feed_url, test_feed_url *)

\* URLs an operator may type, and urllib.parse.urlparse of them.  The last
\* one has an unclosed bracket in its host: urlparse raises ValueError.
TestUrls ==
    {"http://h/f", "https://h/f", "ftp://h/f", "http:///f", "h/f",
     "http://[h/f"}

urlparse(url) ==
    CASE url = "http://h/f"  -> [raised |-> FALSE, scheme |-> "http",  netloc |-> "h"]
      [] url = "https://h/f" -> [raised |-> FALSE, scheme |-> "https", netloc |-> "h"]
      [] url = "ftp://h/f"   -> [raised |-> FALSE, scheme |-> "ftp",   netloc |-> "h"]
      [] url = "http:///f"   -> [raised |-> FALSE, scheme |-> "http",  netloc |-> ""]
      [] url = "h/f"         -> [raised |-> FALSE, scheme |-> "",      netloc |-> ""]
      [] OTHER               -> [raised |-> TRUE,  scheme |-> "",      netloc |-> ""]

\* The error texts, by the line that produces them.
ErrNoNetloc == "invalid URL"                 \* line 132
ErrScheme == "use an HTTP or HTTPS URL"      \* line 135
ErrUrlCheck == "URL validation error"        \* line 140
ErrUnreachable == "could not fetch the feed" \* line 151
ErrNoEntries == "no valid entries found"     \* line 154
ErrFeedTest == "feed test error"             \* line 167
NoError == "<None>"

validate_feed_url(url) ==
    LET parsed_url == urlparse(url)
    IN IF parsed_url.raised THEN [valid |-> FALSE, error |-> ErrUrlCheck]
       ELSE IF parsed_url.netloc = ""
       THEN [valid |-> FALSE, error |-> ErrNoNetloc]
       ELSE IF parsed_url.scheme \notin {"http", "https"}
       THEN [valid |-> FALSE, error |-> ErrScheme]
       ELSE [valid |-> TRUE, error |-> NoError]

\* feed.feed.get('title', 'Unknown Feed')
FeedTitles == {Missing, "t"}
FeedTitle(feed_title) ==
    IF feed_title = Missing THEN "Unknown Feed" ELSE feed_title

\* What test_feed_url gives back.  raised: an exception left it; fetched: it
\* called fetch_feed.  title and entries_count are keys of the valid result
\* only (Missing otherwise).
TestResult(raised, valid, error, title, entries_count, fetched) ==
    [raised |-> raised, valid |-> valid, error |-> error, title |-> title,
     entries_count |-> entries_count, fetched |-> fetched]

Invalid(error, fetched) ==
    TestResult(FALSE, FALSE, error, Missing, 0, fetched)

test_feed_url_NoValidation(url, resp, feed_title) ==
    LET feed == fetch_feed(resp)
    IN IF feed = NoFeed THEN Invalid(ErrUnreachable, TRUE)
       ELSE IF Len(feed) = 0 THEN Invalid(ErrNoEntries, TRUE)
       ELSE TestResult(FALSE, TRUE, NoError, FeedTitle(feed_title),
                       Len(feed), TRUE)

\* Lines 142-167.  resp: what the network does for url; feed_title: the
\* title the feed document carries.
test_feed_url(url, resp, feed_title) ==
    LET validation == validate_feed_url(url)
    IN IF ~validation.valid THEN Invalid(validation.error, FALSE)
       ELSE LET feed == fetch_feed(resp)
            IN IF feed = FetchRaised THEN Invalid(ErrFeedTest, TRUE)
               ELSE IF feed = NoFeed THEN Invalid(ErrUnreachable, TRUE)
               ELSE IF Len(feed) = 0 THEN Invalid(ErrNoEntries, TRUE)
               ELSE TestResult(FALSE, TRUE, NoError, FeedTitle(feed_title),
                               Len(feed), TRUE)

----------------------------------------------------------------------------
(* RSSManager.cleanup_old_processed_articles *)

Restrict(f, S) == [k \in S |-> f[k]]

cleanup_old_processed_articles_KeepUnparsable(pa, dk, t, days, how) ==
    LET cleaned_articles ==
            Restrict(pa, { h \in DOMAIN pa : ~pa[h].iso \/ pa[h].t > t - days })
        sv == save_processed_articles(cleaned_articles, dk, how)
    IN [outcome |-> sv.outcome, pa |-> cleaned_articles, dk |-> sv.dk,
        removed_count |-> 0]

\* removed_count is computed after self.processed_articles was replaced.
cleanup_old_processed_articles(pa, dk, t, days, how) ==
    LET cutoff_date == t - days
        cleaned_articles ==
            Restrict(pa, { h \in DOMAIN pa : pa[h].iso /\ pa[h].t > cutoff_date })
        sv == save_processed_articles(cleaned_articles, dk, how)
    IN [outcome |-> sv.outcome, pa |-> cleaned_articles, dk |-> sv.dk,
        removed_count |-> Cardinality(DOMAIN cleaned_articles)
                            - Cardinality(DOMAIN cleaned_articles)]

----------------------------------------------------------------------------
(* The feed registry (config.json "feeds") *)

Feed(id, url, channel_id, isdict) ==
    [id |-> id, url |-> url, channel_id |-> channel_id, isdict |-> isdict]

\* channel_id "1" names an existing channel, "9" a channel get_channel does
\* not find, "x" is not a number (int() raises ValueError), "" is not set.
\* isdict = FALSE: the value stored under the feed id is not an object, so
\* feed_data.get raises.
Registries ==
    { << Feed("feed_1", "u1", "1", TRUE), Feed("feed_2", "u2", "1", TRUE),
         Feed("feed_3", "", "1", TRUE) >>,
      << Feed("feed_1", "u1", "x", TRUE), Feed("feed_2", "u2", "1", TRUE) >>,
      << Feed("feed_1", "u1", "1", TRUE), Feed("feed_2", "u2", "1", FALSE) >> }

\* ConfigManager.add_feed, lines 50-55: config["feeds"][feed_id] = feed_data.
\* An id already in the dict keeps its place and gets the new value.
add_feed(fs, feed_id, feed_data) ==
    IF \E i \in 1..Len(fs) : fs[i].id = feed_id
    THEN [i \in 1..Len(fs) |-> IF fs[i].id = feed_id THEN feed_data ELSE fs[i]]
    ELSE Append(fs, feed_data)

\* ConfigManager.remove_feed, lines 57-61.
remove_feed(fs, feed_id) ==
    LET keep(f) == f.id # feed_id IN SelectSeq(fs, keep)

\* add_rss line 232: f"feed_{len(get_feeds()) + 1}"
NewFeedId(fs) == "feed_" \o ToString(Len(fs) + 1)

add_rss_MarksEntries(fs, pa, dk, url, resp, feed_title, channel, t) ==
    LET test_result == test_feed_url(url, resp, feed_title)
        g == get_new_articles(fetch_feed(resp), url, DefaultMaxArticles, pa,
                              dk, t, NoFault)
    IN IF ~test_result.valid
       THEN [reply |-> "invalid", feeds |-> fs, pa |-> pa, dk |-> dk,
             feed_id |-> Missing]
       ELSE IF channel = Missing
       THEN [reply |-> "no_channel", feeds |-> fs, pa |-> g.pa, dk |-> g.dk,
             feed_id |-> Missing]
       ELSE [reply |-> "added",
             feeds |-> add_feed(fs, NewFeedId(fs),
                                Feed(NewFeedId(fs), url, channel, TRUE)),
             pa |-> g.pa, dk |-> g.dk, feed_id |-> NewFeedId(fs)]

\* RSSCog.add_rss, bot.py lines 209-252.  channel: the id of the channel
\* create_or_get_channel returns, Missing when it returns None.  The result
\* carries the registry, the index and its file as add_rss leaves them.
add_rss(fs, pa, dk, url, resp, feed_title, channel, t) ==
    LET test_result == test_feed_url(url, resp, feed_title)
    IN IF ~test_result.valid
       THEN [reply |-> "invalid", feeds |-> fs, pa |-> pa, dk |-> dk,
             feed_id |-> Missing]
       ELSE IF channel = Missing
       THEN [reply |-> "no_channel", feeds |-> fs, pa |-> pa, dk |-> dk,
             feed_id |-> Missing]
       ELSE [reply |-> "added",
             feeds |-> add_feed(fs, NewFeedId(fs),
                                Feed(NewFeedId(fs), url, channel, TRUE)),
             pa |-> pa, dk |-> dk, feed_id |-> NewFeedId(fs)]

----------------------------------------------------------------------------
(* RSSManager.check_all_feeds *)

\* Lines 106-114: the (feed_id, coroutine) list; no coroutine runs yet.
RECURSIVE BuildTasks(_, _, _)
BuildTasks(fs, i, acc) ==
    IF i > Len(fs) THEN [raised |-> FALSE, tasks |-> acc]
    ELSE IF ~fs[i].isdict THEN [raised |-> TRUE, tasks |-> << >>]
    ELSE BuildTasks(fs, i + 1,
           IF fs[i].url # "" THEN Append(acc, << fs[i].id, fs[i].url >>)
           ELSE acc)

AwaitTask_NoTry(res, feed_id, r) ==
    [results |-> IF r.status = "returned" /\ r.articles # << >>
                 THEN Append(res, << feed_id, r.articles >>) ELSE res,
     propagate |-> r.status = "raised"]

AwaitTask_KeepEmpty(res, feed_id, r) ==
    [results |-> IF r.status = "returned"
                 THEN Append(res, << feed_id, r.articles >>) ELSE res,
     propagate |-> FALSE]

\* Lines 117-123: one iteration of "for feed_id, task in tasks", given what
\* awaiting the task produced.  propagate: the exception leaves the cycle.
AwaitTask(res, feed_id, r) ==
    [results |-> IF r.status = "returned" /\ r.articles # << >>
                 THEN Append(res, << feed_id, r.articles >>) ELSE res,
     propagate |-> FALSE]

\* A fault per task of one call (position i: the fault of task i's pass).
FaultAt(faults, i) == IF i <= Len(faults) THEN faults[i] ELSE NoFault

\* "for feed_id, task in tasks" from task i on, when no other coroutine
\* runs in between.  served[url] is what fetch_feed returns for url.
RECURSIVE RunTasks(_, _, _, _, _, _, _, _, _)
RunTasks(ts, i, res, log, pa, dk, served, faults, t) ==
    IF i > Len(ts)
    THEN [status |-> "returned", results |-> res, log |-> log, pa |-> pa,
          dk |-> dk]
    ELSE LET r == get_new_articles(served[ts[i][2]], ts[i][2],
                                   DefaultMaxArticles, pa, dk, t,
                                   FaultAt(faults, i))
             a == AwaitTask(res, ts[i][1], r)
             log2 == Append(log, [feed_id |-> ts[i][1], status |-> r.status,
                                  articles |-> r.articles])
         IN IF a.propagate
            THEN [status |-> "raised", results |-> << >>, log |-> log2,
                  pa |-> r.pa, dk |-> r.dk]
            ELSE RunTasks(ts, i + 1, a.results, log2, r.pa, r.dk, served,
                          faults, t)

\* One whole call.  status "raised": an exception left check_all_feeds.
\* log: per task, how awaiting it ended and what it returned.
check_all_feeds(fs, pa, dk, served, faults, t) ==
    LET bt == BuildTasks(fs, 1, << >>)
    IN IF bt.raised
       THEN [status |-> "raised", results |-> << >>, log |-> << >>,
             pa |-> pa, dk |-> dk]
       ELSE RunTasks(bt.tasks, 1, << >>, << >>, pa, dk, served, faults, t)

----------------------------------------------------------------------------
(* RSSBot.process_and_post_articles *)

FeedInfo(fs, feed_id) ==
    LET hit == { i \in 1..Len(fs) : fs[i].id = feed_id }
    IN IF hit = {} THEN Feed(feed_id, "", "", TRUE)
       ELSE fs[CHOOSE i \in hit : TRUE]

\* Lines 93-104 for the feeds at the head of q, up to the first feed whose
\* first article is posted (kind "post": the coroutine suspends in
\* post_article_to_channel), the end of q ("finished") or an exception
\* leaving process_and_post_articles ("raise").
RECURSIVE EnterFeeds(_, _)
EnterFeeds(q, fs) ==
    IF q = << >> THEN [kind |-> "finished", q |-> << >>]
    ELSE LET channel_id == FeedInfo(fs, q[1][1]).channel_id
         IN IF channel_id = "" THEN EnterFeeds(Tail(q), fs)
            ELSE IF channel_id = "x" THEN [kind |-> "raise", q |-> << >>]
            ELSE IF channel_id = "9" THEN EnterFeeds(Tail(q), fs)
            ELSE IF q[1][2] = << >> THEN EnterFeeds(Tail(q), fs)
            ELSE [kind |-> "post", q |-> q]

OnPostError_Raise == "raise"

\* process_and_post_articles lines 110-111: an exception of
\* post_article_to_channel is logged and the for loop goes on.
OnPostError == "continue"

\* The delivery of a whole result mapping (feed_check_loop lines 78-79) when
\* nothing else runs in between.  posts[n]: whether the n-th call of
\* post_article_to_channel succeeds; attempts: the articles it was called
\* for, in order.
RECURSIVE Deliver(_, _, _, _)
Deliver(q, fs, posts, attempts) ==
    LET d == EnterFeeds(q, fs)
    IN IF d.kind = "finished"
       THEN [status |-> "finished", attempts |-> attempts]
       ELSE IF d.kind = "raise"
       THEN [status |-> "raised", attempts |-> attempts]
       ELSE LET article == d.q[1][2][1]
                rest == Tail(d.q[1][2])
                attempts2 == Append(attempts, article)
            IN IF ~posts[Len(attempts2)] /\ OnPostError = "raise"
               THEN [status |-> "raised", attempts |-> attempts2]
               ELSE Deliver(IF rest = << >> THEN Tail(d.q)
                            ELSE << << d.q[1][1], rest >> >> \o Tail(d.q),
                            fs, posts, attempts2)

OnCycleError_Break == "done"

\* feed_check_loop lines 87-89: log, await asyncio.sleep(60), loop again.
OnCycleError == "backoff"

OnCancel_AsError(at) == IF at = "backoff" THEN "done" ELSE "backoff"

OnCancel_Continue(at) == "start"

\* CancelledError is thrown into feed_check_loop where it is suspended (at).
\* In the try body (fetch, delivery, inter-cycle sleep) lines 84-86 catch it
\* and break; in the back-off sleep of line 89 it leaves the coroutine; a
\* task cancelled before its first step never runs.  No except Exception
\* on the way (fetch_feed, check_all_feeds, process_and_post_articles,
\* ai_processor) catches it.  The result is where the task is afterwards.
OnCancel(at) == "done"

\* IntervalSettingsModal: what the operator may type (max_length=2), and
\* int() of it (-1: int raises ValueError).
IntervalInputs == {"5", "15", "30", "60", "10", "x"}

ParseInt(str) ==
    CASE str = "5" -> 5 [] str = "15" -> 15 [] str = "30" -> 30
      [] str = "60" -> 60 [] str = "10" -> 10 [] OTHER -> -1

AllowedIntervals == {5, 15, 30, 60}

----------------------------------------------------------------------------
(* State *)

Procs == {"loop", "cmd"}     \* feed_check_loop's task, an rss_check_now call

ArticleKeys == { << EntryTitle(e), EntryLink(e) >> : e \in EntryPool }

NoHarness == [kind |-> "none"]
NoneEmitted == [k \in ArticleKeys |-> 0]
StartPc == [p \in Procs |-> IF p = "loop" THEN "start" ELSE "idle"]
NoSeqs == [p \in Procs |-> << >>]
NotRead == 0                 \* check_interval before line 71 has run
\* No task was replaced.  pc: where the replaced task is suspended ("done":
\* it has ended); cancel: its cancel() was called and it has not run since;
\* at: where it was suspended when it was cancelled.
NoTask == [pc |-> "none", cancel |-> FALSE, at |-> "none"]


Init ==
    /\ feeds \in Registries
    /\ disk = Absent
    /\ processed_articles = load_processed_articles(disk)
    /\ now = 0
    /\ alive = TRUE
    /\ pc = StartPc
    /\ tasks = NoSeqs
    /\ idx = [p \in Procs |-> 0]
    /\ results = NoSeqs
    /\ queue = NoSeqs
    /\ emitted = NoneEmitted
    /\ durable = {}
    /\ persisted = FALSE
    /\ cycles = 0
    /\ interval = DefaultCheckInterval
    /\ check_interval = NotRead
    /\ superseded = NoTask
    /\ run = NoHarness

----------------------------------------------------------------------------
(* Steps of the coroutines *)

RECURSIVE CountIn(_, _)
\* how often the article key k occurs in the lists of the results res
CountIn(res, k) ==
    IF res = << >> THEN 0
    ELSE Cardinality({ i \in 1..Len(res[1][2]) :
                         << res[1][2][i].title, res[1][2][i].link >> = k })
         + CountIn(Tail(res), k)

Emit(res) == [k \in ArticleKeys |-> emitted[k] + CountIn(res, k)]

\* The process dies: nothing of its memory is left.
Down ==
    /\ alive' = FALSE
    /\ processed_articles' = EmptyIndex
    /\ pc' = StartPc
    /\ tasks' = NoSeqs
    /\ idx' = [p \in Procs |-> 0]
    /\ results' = NoSeqs
    /\ queue' = NoSeqs
    /\ emitted' = NoneEmitted
    /\ persisted' = FALSE
    /\ cycles' = 0
    /\ check_interval' = NotRead
    /\ superseded' = NoTask

AfterCheck_NotAwaited(p, res) ==
    /\ pc' = [pc EXCEPT ![p] = IF p = "cmd" THEN "idle" ELSE "sleep"]
    /\ queue' = [queue EXCEPT ![p] = res]

\* p leaves check_all_feeds with the mapping res and goes on to deliver it:
\* feed_check_loop lines 78-82, check_now lines 303-313.
AfterCheck(p, res) ==
    LET d == IF p = "cmd" /\ res = << >>
             THEN [kind |-> "finished", q |-> << >>]
             ELSE EnterFeeds(res, feeds)
    IN /\ pc' = [pc EXCEPT ![p] =
                   IF d.kind = "post" THEN "post"
                   ELSE IF p = "cmd" THEN "idle"
                   ELSE IF d.kind = "raise" THEN OnCycleError ELSE "sleep"]
       /\ queue' = [queue EXCEPT ![p] = d.q]

\* An exception leaves check_all_feeds or the delivery of p.
CycleError(p) ==
    /\ pc' = [pc EXCEPT ![p] = IF p = "cmd" THEN "idle" ELSE OnCycleError]
    /\ queue' = [queue EXCEPT ![p] = << >>]

\* p calls check_all_feeds and runs to its first suspension.
BeginCheck(p) ==
    LET bt == BuildTasks(feeds, 1, << >>)
    IN /\ results' = [results EXCEPT ![p] = << >>]
       /\ idx' = [idx EXCEPT ![p] = IF bt.tasks = << >> THEN 0 ELSE 1]
       /\ tasks' = [tasks EXCEPT ![p] = bt.tasks]
       /\ IF bt.raised THEN CycleError(p)
          ELSE IF bt.tasks = << >> THEN AfterCheck(p, << >>)
          ELSE /\ pc' = [pc EXCEPT ![p] = "check"]
               /\ queue' = [queue EXCEPT ![p] = << >>]
       /\ UNCHANGED << feeds, processed_articles, disk, now, alive, emitted,
                       durable, persisted, interval, superseded, run >>

\* feed_check_loop: the task's first run, or a sleep returns: lines 70-75.
LoopWake ==
    /\ alive
    /\ pc["loop"] \in {"start", "sleep", "backoff"}
    /\ cycles' = 1 - cycles
    /\ check_interval' = interval
    /\ BeginCheck("loop")

\* check_now: lines 298-301.
CmdStart ==
    /\ alive
    /\ pc["cmd"] = "idle"
    /\ UNCHANGED << cycles, check_interval >>
    /\ BeginCheck("cmd")

SeqToSet(s) == { s[i] : i \in 1..Len(s) }

\* The fetch of p's current task completes (fetched) and get_new_articles
\* runs to its end without suspending; check_all_feeds takes the next task
\* or returns.
FeedStep(p) ==
    /\ alive
    /\ pc[p] = "check"
    /\ \E fetched \in ShortFeeds \cup {NoFeed} :
       LET task == tasks[p][idx[p]]
           saves == Len(get_new_articles(fetched, task[2],
                          DefaultMaxArticles, processed_articles, disk,
                          now, NoFault).marks)
       IN \E fault \in { f \in Faults : f.at <= saves } :
                                          \* a fault needs a save to strike
         LET r == get_new_articles(fetched, task[2], DefaultMaxArticles,
                                   processed_articles, disk, now, fault)
             a == AwaitTask(results[p], task[1], r)
         IN /\ disk' = r.dk
            /\ durable' = durable \cup SeqToSet(r.saved)
            /\ IF r.status = "crashed"
               THEN Down
               ELSE
                 /\ processed_articles' = r.pa
                 /\ persisted' = (persisted \/ r.marks # << >>)
                 /\ UNCHANGED << alive, tasks, cycles, check_interval,
                                 superseded >>
                 /\ IF a.propagate
                    THEN /\ CycleError(p)
                         /\ results' = [results EXCEPT ![p] = << >>]
                         /\ UNCHANGED << idx, emitted >>
                    ELSE IF idx[p] < Len(tasks[p])
                    THEN /\ idx' = [idx EXCEPT ![p] = idx[p] + 1]
                         /\ results' = [results EXCEPT ![p] = a.results]
                         /\ UNCHANGED << pc, queue, emitted >>
                    ELSE /\ AfterCheck(p, a.results)
                         /\ results' = [results EXCEPT ![p] = << >>]
                         /\ emitted' = Emit(a.results)
                         /\ UNCHANGED idx
    /\ UNCHANGED << feeds, now, interval, run >>

\* post_article_to_channel and the sleep(2) after it end for the article at
\* the head of p's queue; a failed post is logged (lines 106-111).  Then the
\* next article, the next feed, or the end of the delivery.
PostStep(p) ==
    /\ alive
    /\ pc[p] = "post"
    /\ \E posted \in BOOLEAN :
         LET rest == Tail(queue[p][1][2])
         IN IF ~posted /\ OnPostError = "raise"
            THEN CycleError(p)
            ELSE IF rest # << >>
            THEN /\ queue' = [queue EXCEPT ![p] =
                                << << queue[p][1][1], rest >> >>
                                \o Tail(queue[p])]
                 /\ UNCHANGED pc
            ELSE AfterCheck(p, Tail(queue[p]))
    /\ UNCHANGED << feeds, processed_articles, disk, now, alive, tasks, idx,
                    results, emitted, durable, persisted, cycles, interval,
                    check_interval, superseded, run >>

----------------------------------------------------------------------------
(* The environment *)

CleanupDays == {1, 2}

\* A caller invokes cleanup_old_processed_articles(days).
Cleanup ==
    /\ alive
    /\ \E days \in CleanupDays,
          how \in {"ok", "open_fails", "write_fails", "crash"} :
         LET c == cleanup_old_processed_articles(processed_articles, disk,
                                                 now, days, how)
         IN /\ disk' = c.dk
            /\ durable' = durable \cap DOMAIN c.pa
            /\ IF c.outcome = "crashed"
               THEN Down
               ELSE /\ processed_articles' = c.pa
                    /\ persisted' = TRUE
                    /\ emitted' = NoneEmitted
                    /\ UNCHANGED << alive, pc, tasks, idx, results, queue,
                                    cycles, check_interval, superseded >>
    /\ UNCHANGED << feeds, now, interval, run >>

Tick ==
    /\ now < MaxClock
    /\ now' = now + 1
    /\ UNCHANGED << feeds, processed_articles, disk, alive, pc, tasks, idx,
                    results, queue, emitted, durable, persisted, cycles,
                    interval, check_interval, superseded, run >>

\* The process is killed while every coroutine is suspended.
Crash ==
    /\ alive
    /\ Down
    /\ UNCHANGED << feeds, disk, now, durable, interval, run >>

\* RSSBot.__init__ and setup_hook: the index is loaded, the loop task created.
Restart ==
    /\ ~alive
    /\ alive' = TRUE
    /\ processed_articles' = load_processed_articles(disk)
    /\ UNCHANGED << feeds, disk, now, pc, tasks, idx, results, queue,
                    emitted, durable, persisted, cycles, interval,
                    check_interval, superseded, run >>

\* start_feed_checking, lines 62-65: the running task is cancelled and a new
\* one created, which has not run yet.  One replaced task is kept: the one
\* replaced before it has ended by then.
start_feed_checking ==
    /\ ~superseded.cancel
    /\ superseded' = IF pc["loop"] = "done" THEN NoTask
                     ELSE [pc |-> pc["loop"], cancel |-> TRUE,
                           at |-> pc["loop"]]
    /\ pc' = [pc EXCEPT !["loop"] = "start"]
    /\ tasks' = [tasks EXCEPT !["loop"] = << >>]
    /\ idx' = [idx EXCEPT !["loop"] = 0]
    /\ results' = [results EXCEPT !["loop"] = << >>]
    /\ queue' = [queue EXCEPT !["loop"] = << >>]
    /\ check_interval' = NotRead

\* IntervalSettingsModal.on_submit, lines 420-435, with ConfigManager.set.
on_submit ==
    /\ alive
    /\ \E value \in IntervalInputs :
         IF ParseInt(value) \in AllowedIntervals
         THEN /\ interval' = ParseInt(value)
              /\ start_feed_checking
         ELSE UNCHANGED << interval, superseded, pc, tasks, idx, results,
                           queue, check_interval >>
    /\ UNCHANGED << feeds, processed_articles, disk, now, alive, emitted,
                    durable, persisted, cycles, run >>

\* The event loop resumes the cancelled task: CancelledError is thrown into
\* it.
CancelStep ==
    /\ alive
    /\ superseded.cancel
    /\ superseded' = [superseded EXCEPT !.pc = OnCancel(superseded.at),
                                        !.cancel = FALSE]
    /\ UNCHANGED << feeds, processed_articles, disk, now, alive, pc, tasks,
                    idx, results, queue, emitted, durable, persisted, cycles,
                    interval, check_interval, run >>

\* The bot: the scheduling loop and an on-demand check share the index.
\* bot.py never calls cleanup_old_processed_articles and never reads a
\* timestamp, so neither the cleanup nor the clock is part of it.
Next ==
    \/ LoopWake
    \/ CmdStart
    \/ \E p \in Procs : FeedStep(p)
    \/ \E p \in Procs : PostStep(p)
    \/ Crash
    \/ Restart

Spec == Init /\ [][Next]_vars

\* The index over time: the scheduling loop, the clock, and a caller of
\* cleanup_old_processed_articles, with a registry of well-formed feeds.
InitStore ==
    /\ Init
    /\ \A i \in 1..Len(feeds) : feeds[i].isdict /\ feeds[i].channel_id = "1"

NextStore ==
    \/ LoopWake
    \/ FeedStep("loop")
    \/ PostStep("loop")
    \/ Cleanup
    \/ Tick
    \/ Crash
    \/ Restart

SpecStore == InitStore /\ [][NextStore]_vars

\* The scheduling loop under operator interval changes.
NextSched ==
    \/ LoopWake
    \/ FeedStep("loop")
    \/ PostStep("loop")
    \/ on_submit
    \/ CancelStep

SpecSched == InitStore /\ [][NextSched]_vars

----------------------------------------------------------------------------
(* Single calls, with their inputs drawn at the start *)

\* The bot at rest; the single-call specifications leave it there.
AtRest ==
    /\ alive = TRUE
    /\ pc = StartPc
    /\ tasks = NoSeqs
    /\ idx = [p \in Procs |-> 0]
    /\ results = NoSeqs
    /\ queue = NoSeqs
    /\ emitted = NoneEmitted
    /\ durable = {}
    /\ persisted = FALSE
    /\ cycles = 0
    /\ interval = DefaultCheckInterval
    /\ check_interval = NotRead
    /\ superseded = NoTask

Hashes ==
    { generate_article_hash(EntryTitle(e), EntryLink(e)) : e \in EntryPool }

\* Indexes a call may start from: any set of known hashes, marked at time 0.
StartIndexes == { [k \in S |-> IsoFormat(0)] : S \in SUBSET Hashes }

RaisingFaults ==
    {NoFault} \cup [at : 1..2, how : {"open_fails", "write_fails"}]

NoReturn == [status |-> "none", articles |-> << >>, pa |-> EmptyIndex,
             dk |-> Absent, marks |-> << >>, saved |-> << >>]

\* get_new_articles, once.
InitPass ==
    /\ AtRest
    /\ feeds \in { f \in Registries : Len(f) = 3 }
    /\ processed_articles \in StartIndexes
    /\ disk = Json(processed_articles)
    /\ now = 0
    /\ run \in [kind : {"pass"}, stage : {"in"},
                fetched : FeedContents \cup {NoFeed},
                max_articles : {1, DefaultMaxArticles},
                before : {EmptyIndex}, r : {NoReturn}]

CallPass ==
    /\ run.kind = "pass"
    /\ run.stage = "in"
    /\ \E fault \in RaisingFaults :
         LET r == get_new_articles(run.fetched, "u1", run.max_articles,
                                   processed_articles, disk, now, fault)
         IN /\ run' = [run EXCEPT !.stage = "out", !.r = r,
                                  !.before = processed_articles]
            /\ processed_articles' = r.pa
            /\ disk' = r.dk
    /\ UNCHANGED << feeds, now, alive, pc, tasks, idx, results, queue,
                    emitted, durable, persisted, cycles, interval,
                    check_interval, superseded >>

SpecPass == InitPass /\ [][CallPass]_vars

Urls == {"u1", "u2"}

NoCall == [status |-> "none", results |-> << >>, log |-> << >>]

\* check_all_feeds, twice in succession, the feeds serving the same both
\* times.
InitCycle ==
    /\ AtRest
    /\ feeds \in { f \in Registries : f[1].channel_id = "1" }
    /\ processed_articles \in { pa \in StartIndexes : "No Title|" \notin DOMAIN pa }
    /\ disk = Json(processed_articles)
    /\ now = 0
    /\ run \in [kind : {"cycle"}, call : {0},
                served : [Urls -> ShortFeeds \cup {NoFeed}],
                faulty : {FALSE}, first : {NoCall}, second : {NoCall}]

CallCycle ==
    /\ run.kind = "cycle"
    /\ run.call < 2
    /\ \E f \in RaisingFaults, i \in 1..2 :
         LET faults == IF i = 1 THEN << f >> ELSE << NoFault, f >>
             c == check_all_feeds(feeds, processed_articles, disk,
                                  run.served, faults, now)
             ret == [status |-> c.status, results |-> c.results,
                     log |-> c.log]
         IN /\ run' = IF run.call = 0
                      THEN [run EXCEPT !.call = 1, !.first = ret,
                              !.faulty = \E n \in 1..Len(c.log) :
                                            c.log[n].status = "raised"]
                      ELSE [run EXCEPT !.call = 2, !.second = ret]
            /\ processed_articles' = c.pa
            /\ disk' = c.dk
    /\ UNCHANGED << feeds, now, alive, pc, tasks, idx, results, queue,
                    emitted, durable, persisted, cycles, interval,
                    check_interval, superseded >>

SpecCycle == InitCycle /\ [][CallCycle]_vars

\* fetch_feed and get_new_articles on what the network does, once.
InitFetch ==
    /\ AtRest
    /\ feeds \in { f \in Registries : Len(f) = 3 }
    /\ processed_articles \in StartIndexes
    /\ disk = Json(processed_articles)
    /\ now = 0
    /\ run \in [kind : {"fetch"}, stage : {"in"}, resp : Responses,
                before : {EmptyIndex}, r : {NoReturn @@ [feed |-> NoFeed]}]

CallFetch ==
    /\ run.kind = "fetch"
    /\ run.stage = "in"
    /\ \E fault \in RaisingFaults :
         LET r == FetchAndProcess(run.resp, "u1", DefaultMaxArticles,
                                  processed_articles, disk, now, fault)
         IN /\ run' = [run EXCEPT !.stage = "out", !.r = r,
                                  !.before = processed_articles]
            /\ processed_articles' = r.pa
            /\ disk' = r.dk
    /\ UNCHANGED << feeds, now, alive, pc, tasks, idx, results, queue,
                    emitted, durable, persisted, cycles, interval,
                    check_interval, superseded >>

SpecFetch == InitFetch /\ [][CallFetch]_vars

NoTest == TestResult(FALSE, FALSE, "<not called>", Missing, 0, FALSE)

\* One call of test_feed_url.
InitTest ==
    /\ AtRest
    /\ feeds = << >>
    /\ processed_articles = EmptyIndex
    /\ disk = Absent
    /\ now = 0
    /\ run \in [kind : {"test"}, stage : {"in"}, url : TestUrls,
                resp : Responses, feed_title : FeedTitles, r : {NoTest}]

CallTest ==
    /\ run.kind = "test"
    /\ run.stage = "in"
    /\ run' = [run EXCEPT !.stage = "out",
                          !.r = test_feed_url(run.url, run.resp,
                                              run.feed_title)]
    /\ UNCHANGED << feeds, processed_articles, disk, now, alive, pc, tasks,
                    idx, results, queue, emitted, durable, persisted, cycles,
                    interval, check_interval, superseded >>

SpecTest == InitTest /\ [][CallTest]_vars

MaxRegistrations == 3   \* add_rss calls of one behaviour
MaxRemovals == 1        \* remove_feed calls of one behaviour

\* Registrations, removals and the check cycle after a registration.  The
\* feed documents behind the accepted URLs carry run.entries throughout.
\* stage: "added" after a successful add_rss, "checked" after the cycle
\* that follows it.  before: the index when that cycle began.
InitRegister ==
    /\ AtRest
    /\ feeds = << >>
    /\ processed_articles \in StartIndexes
    /\ disk = Json(processed_articles)
    /\ now = 0
    /\ run \in [kind : {"register"}, stage : {"idle"}, entries : ShortFeeds,
                adds : {0}, removes : {0}, feed_id : {Missing},
                before : {EmptyIndex}, r : {NoCall}]

CallAddRss ==
    /\ run.kind = "register"
    /\ run.stage # "checked"
    /\ run.adds < MaxRegistrations
    /\ \E url \in TestUrls, kind \in {"ok", "http_error", "network_error"},
          feed_title \in FeedTitles, channel \in {"1", Missing} :
         LET resp == Response(kind, IF kind = "ok" THEN run.entries
                                    ELSE << >>)
             a == add_rss(feeds, processed_articles, disk, url, resp,
                          feed_title, channel, now)
         IN /\ feeds' = a.feeds
            /\ processed_articles' = a.pa
            /\ disk' = a.dk
            /\ run' = [run EXCEPT !.adds = run.adds + 1,
                                  !.stage = IF a.reply = "added" THEN "added"
                                            ELSE "idle",
                                  !.feed_id = a.feed_id]
    /\ UNCHANGED << now, alive, pc, tasks, idx, results, queue, emitted,
                    durable, persisted, cycles, interval, check_interval,
                    superseded >>

CallRemoveFeed ==
    /\ run.kind = "register"
    /\ run.stage # "checked"
    /\ run.removes < MaxRemovals
    /\ \E i \in 1..Len(feeds) :
         /\ feeds' = remove_feed(feeds, feeds[i].id)
         /\ run' = [run EXCEPT !.removes = run.removes + 1,
                               !.stage = "idle", !.feed_id = Missing]
    /\ UNCHANGED << processed_articles, disk, now, alive, pc, tasks, idx,
                    results, queue, emitted, durable, persisted, cycles,
                    interval, check_interval, superseded >>

\* The check cycle that follows a registration.
CallCheck ==
    /\ run.kind = "register"
    /\ run.stage = "added"
    /\ LET served == [u \in { feeds[i].url : i \in 1..Len(feeds) } |->
                        run.entries]
           c == check_all_feeds(feeds, processed_articles, disk, served,
                                << >>, now)
       IN /\ processed_articles' = c.pa
          /\ disk' = c.dk
          /\ run' = [run EXCEPT !.stage = "checked",
                                !.before = processed_articles,
                                !.r = [status |-> c.status,
                                       results |-> c.results,
                                       log |-> c.log]]
    /\ UNCHANGED << feeds, now, alive, pc, tasks, idx, results, queue,
                    emitted, durable, persisted, cycles, interval,
                    check_interval, superseded >>

NextRegister == CallAddRss \/ CallRemoveFeed \/ CallCheck

SpecRegister == InitRegister /\ [][NextRegister]_vars

\* Registries for a delivery: each feed's channel is set and found, set and
\* not found, not a number, or not set.
ChannelIds == {"1", "9", "x", ""}

DeliveryRegistries ==
    { << Feed("feed_1", "u1", c1, TRUE), Feed("feed_2", "u2", c2, TRUE) >> :
         c1 \in ChannelIds, c2 \in ChannelIds }

\* The article lists check_all_feeds may return for the feed at url.
ArticleLists(url) ==
    { [i \in 1..Len(es) |->
         [title |-> EntryTitle(es[i]), link |-> EntryLink(es[i]),
          feed_url |-> url]] :
      es \in { s \in ShortFeeds : s # << >> } }

RECURSIVE Flatten(_)
\* The articles of a result mapping, in the order of delivery.
Flatten(q) == IF q = << >> THEN << >> ELSE q[1][2] \o Flatten(Tail(q))

\* check_all_feeds returns no article twice: each one was marked when it was
\* returned, whichever feed it came from.
NoRepeat(as) ==
    \A i, j \in 1..Len(as) :
       generate_article_hash(as[i].title, as[i].link)
         = generate_article_hash(as[j].title, as[j].link) => i = j

ResultMappings ==
    { q \in { << << "feed_1", l >> >> : l \in ArticleLists("u1") }
            \cup { << << "feed_1", l >>, << "feed_2", m >> >> :
                     l \in ArticleLists("u1"), m \in ArticleLists("u2") } :
        NoRepeat(Flatten(q)) }

MaxPosts == Cardinality(Hashes)

NoDelivery == [status |-> "none", attempts |-> << >>]

\* The delivery of one result mapping.
InitDeliver ==
    /\ AtRest
    /\ feeds \in DeliveryRegistries
    /\ processed_articles = EmptyIndex
    /\ disk = Absent
    /\ now = 0
    /\ run \in [kind : {"deliver"}, stage : {"in"}, q : ResultMappings,
                posts : [1..MaxPosts -> BOOLEAN], r : {NoDelivery}]

CallDeliver ==
    /\ run.kind = "deliver"
    /\ run.stage = "in"
    /\ run' = [run EXCEPT !.stage = "out",
                          !.r = Deliver(run.q, feeds, run.posts, << >>)]
    /\ UNCHANGED << feeds, processed_articles, disk, now, alive, pc, tasks,
                    idx, results, queue, emitted, durable, persisted, cycles,
                    interval, check_interval, superseded >>

SpecDeliver == InitDeliver /\ [][CallDeliver]_vars

\* Timestamp strings an index file may hold, and the indexes made of them.
Stamps == { IsoFormat(t) : t \in 0..MaxClock } \cup {Garbage}

StampedIndexes == UNION { [S -> Stamps] : S \in SUBSET Hashes }

PruneDays == 0..2            \* cleanup_old_processed_articles(days)

NoCleanup == [outcome |-> "none", pa |-> EmptyIndex, dk |-> Absent,
              removed_count |-> 0]

\* cleanup_old_processed_articles, once.
InitCleanup ==
    /\ AtRest
    /\ feeds \in { f \in Registries : Len(f) = 3 }
    /\ processed_articles \in StampedIndexes
    /\ disk = Json(processed_articles)
    /\ now \in 0..MaxClock
    /\ run \in [kind : {"cleanup"}, stage : {"in"}, days : PruneDays,
                before : {EmptyIndex}, r : {NoCleanup}]

CallCleanup ==
    /\ run.kind = "cleanup"
    /\ run.stage = "in"
    /\ \E how \in {"ok", "open_fails", "write_fails"} :
         LET r == cleanup_old_processed_articles(processed_articles, disk,
                                                 now, run.days, how)
         IN /\ run' = [run EXCEPT !.stage = "out", !.r = r,
                                  !.before = processed_articles]
            /\ processed_articles' = r.pa
            /\ disk' = r.dk
    /\ UNCHANGED << feeds, now, alive, pc, tasks, idx, results, queue,
                    emitted, durable, persisted, cycles, interval,
                    check_interval, superseded >>

SpecCleanup == InitCleanup /\ [][CallCleanup]_vars

\* What may lie at a path when the bot starts.
FileStates ==
    {Absent, Corrupt, Unreadable, Directory}
    \cup { Json(pa) : pa \in StampedIndexes }

Paths == {DefaultFile, PathJoin(DefaultFile, "data.json")}

\* A path below DefaultFile exists only if DefaultFile is a directory.
FileSystems ==
    { fs \in [Paths -> FileStates] :
        fs[DefaultFile].kind # "dir"
           => fs[PathJoin(DefaultFile, "data.json")] = Absent }

NoManager == [processed_articles_file |-> "", processed_articles |-> EmptyIndex]

\* RSSManager(config_manager), then the first mark_article_processed.
InitLoad ==
    /\ AtRest
    /\ feeds \in { f \in Registries : Len(f) = 3 }
    /\ processed_articles = EmptyIndex
    /\ disk = Absent
    /\ now = 0
    /\ run \in [kind : {"load"}, stage : {"in"}, fs : FileSystems,
                r : {NoManager}]

CallLoad ==
    /\ run.kind = "load"
    /\ run.stage = "in"
    /\ LET r == RSSManager_init(run.fs)
       IN /\ run' = [run EXCEPT !.stage = "out", !.r = r]
          /\ processed_articles' = r.processed_articles
          /\ disk' = run.fs[r.processed_articles_file]
    /\ UNCHANGED << feeds, now, alive, pc, tasks, idx, results, queue,
                    emitted, durable, persisted, cycles, interval,
                    check_interval, superseded >>

\* open(..., 'w') raises on a directory and on a file it may not open.
MarkAfterLoad ==
    /\ run.kind = "load"
    /\ run.stage = "out"
    /\ \E e \in EntryPool, how \in {"ok", "open_fails", "write_fails"} :
         LET m == mark_article_processed(processed_articles, disk,
                                         EntryTitle(e), EntryLink(e), now, how)
         IN /\ disk.kind \in {"dir", "unreadable"} => how = "open_fails"
            /\ run' = [run EXCEPT !.stage = "marked"]
            /\ processed_articles' = m.pa
            /\ disk' = m.dk
    /\ UNCHANGED << feeds, now, alive, pc, tasks, idx, results, queue,
                    emitted, durable, persisted, cycles, interval,
                    check_interval, superseded >>

SpecLoad == InitLoad /\ [][CallLoad \/ MarkAfterLoad]_vars

\* The coroutines that write the index: the pass of the loop's cycle, the
\* pass of an on-demand check, and a caller of the cleanup.
Writers == {"loop", "cmd", "cleaner"}
Passes == {"loop", "cmd"}

\* The writers on the event loop, save_processed_articles taken in two
\* steps: open(..., 'w') has truncated the file; json.dump has written it.
\* running: the coroutine the event loop is executing; wpc: "await" (a
\* fetch or another await has completed, the coroutine waits for the event
\* loop), "run", "save" (inside save_processed_articles), "idle"; todo: the
\* entries a pass has still to examine; writers: who is inside
\* save_processed_articles.
InitWrite ==
    /\ AtRest
    /\ feeds \in { f \in Registries : Len(f) = 3 }
    /\ processed_articles \in StartIndexes
    /\ disk = Json(processed_articles)
    /\ now \in 0..MaxClock
    /\ run \in [kind : {"write"}, running : {"none"},
                wpc : {[w \in Writers |-> "await"]},
                todo : [Passes -> ShortFeeds \ {<< >>}],
                writers : {{}}]

\* The event loop picks a coroutine whose await has completed.
ResumeWriter ==
    /\ run.kind = "write"
    /\ run.running = "none"
    /\ \E w \in Writers :
         /\ run.wpc[w] = "await"
         /\ run' = [run EXCEPT !.running = w, !.wpc[w] = "run"]
    /\ UNCHANGED << processed_articles, disk >>

\* get_new_articles lines 83-100 for the next entry, up to the open of
\* save_processed_articles; after the last entry the pass returns.
PassStep ==
    /\ run.kind = "write"
    /\ \E w \in Passes :
         /\ run.running = w
         /\ run.wpc[w] = "run"
         /\ IF run.todo[w] = << >>
            THEN /\ run' = [run EXCEPT !.running = "none", !.wpc[w] = "idle"]
                 /\ UNCHANGED << processed_articles, disk >>
            ELSE LET title == EntryTitle(run.todo[w][1])
                     link == EntryLink(run.todo[w][1])
                 IN IF is_article_processed(processed_articles, title, link)
                    THEN /\ run' = [run EXCEPT !.todo[w] = Tail(run.todo[w])]
                         /\ UNCHANGED << processed_articles, disk >>
                    ELSE /\ processed_articles' =
                               Put(processed_articles,
                                   generate_article_hash(title, link),
                                   IsoFormat(now))
                         /\ disk' = Corrupt
                         /\ run' = [run EXCEPT
                               !.wpc[w] = "save",
                               !.writers = run.writers \cup {w},
                               !.running = IF SaveSuspends THEN "none" ELSE w]

\* cleanup_old_processed_articles lines 171-184, up to the open.
CleanerStep ==
    /\ run.kind = "write"
    /\ run.running = "cleaner"
    /\ run.wpc["cleaner"] = "run"
    /\ \E days \in PruneDays :
         processed_articles' =
            cleanup_old_processed_articles(processed_articles, disk, now,
                                           days, "ok").pa
    /\ disk' = Corrupt
    /\ run' = [run EXCEPT !.wpc["cleaner"] = "save",
                          !.writers = run.writers \cup {"cleaner"},
                          !.running = IF SaveSuspends THEN "none"
                                      ELSE "cleaner"]

\* json.dump and the close of the file; the caller goes on.
EndSave ==
    /\ run.kind = "write"
    /\ \E w \in Writers :
         /\ run.wpc[w] = "save"
         /\ run.running = w \/ (SaveSuspends /\ run.running = "none")
         /\ disk' = Json(processed_articles)
         /\ run' = IF w = "cleaner"
                   THEN [run EXCEPT !.wpc[w] = "idle", !.running = "none",
                                    !.writers = run.writers \ {w}]
                   ELSE [run EXCEPT !.wpc[w] = "run", !.running = w,
                                    !.writers = run.writers \ {w},
                                    !.todo[w] = Tail(run.todo[w])]
    /\ UNCHANGED processed_articles

NextWrite ==
    /\ \/ ResumeWriter
       \/ PassStep
       \/ CleanerStep
       \/ EndSave
    /\ UNCHANGED << feeds, now, alive, pc, tasks, idx, results, queue,
                    emitted, durable, persisted, cycles, interval,
                    check_interval, superseded >>

SpecWrite == InitWrite /\ [][NextWrite]_vars

----------------------------------------------------------------------------
(* Fairness: the event loop resumes a coroutine whose await has completed; *)
(* a sleep ends, a fetch ends (timeout=30), a post ends.                   *)

LoopStep == LoopWake \/ FeedStep("loop") \/ PostStep("loop")

FairSpec == Spec /\ WF_vars(LoopStep)

FairSched == SpecSched /\ WF_vars(LoopStep) /\ WF_vars(CancelStep)

----------------------------------------------------------------------------
(* Properties *)

KeyHash(k) == generate_article_hash(k[1], k[2])
ResultKeys(res) == { res[i][1] : i \in 1..Len(res) }
ResultSet(res) == { res[i] : i \in 1..Len(res) }

\* C1: within one run of the process (no cleanup, which the bot never
\* calls), however the loop's cycles and on-demand checks interleave, an
\* article (title, link) is returned as new at most once over all the
\* check_all_feeds calls that have returned.
C1_AtMostOnce == \A k \in ArticleKeys : emitted[k] <= 1

\* Two calls overlap, one already holding a new article another call returned
\* none of, after an earlier call has returned an article.
C1_Witness ==
    /\ pc["loop"] = "check" /\ pc["cmd"] = "check"
    /\ idx["loop"] = 2 /\ idx["cmd"] = 2
    /\ results["loop"] # << >> /\ results["cmd"] = << >>
    /\ \E k \in ArticleKeys : emitted[k] = 1

\* C2: while the process runs, a (title, link) that is_article_processed
\* reports as seen is still reported as seen after every step that is not a
\* cleanup: no check, fetch failure, failed save or delivery removes it.
C2_OnlyCleanupRemoves ==
    [][ (alive /\ alive' /\ ~Cleanup) =>
          \A k \in ArticleKeys :
             is_article_processed(processed_articles, k[1], k[2])
                => is_article_processed(processed_articles', k[1], k[2]) ]_vars

\* An entry is in the index while a delivery is under way and the clock has
\* moved on.
C2_Witness ==
    /\ alive /\ pc["loop"] = "post" /\ now > 0
    /\ \E k \in ArticleKeys :
          is_article_processed(processed_articles, k[1], k[2])

\* C3: after a restart, every hash whose mark_article_processed returned in
\* this or an earlier run is reported as seen.
C3_SurvivesRestart ==
    alive => \A k \in ArticleKeys :
                KeyHash(k) \in durable
                   => is_article_processed(processed_articles, k[1], k[2])

\* C4: the second of two check_all_feeds calls in immediate succession, the
\* feeds serving the same both times, returns the empty mapping.
C4_SecondCallEmpty ==
    (run.kind = "cycle" /\ run.call = 2 /\ run.second.status = "returned")
       => run.second.results = << >>

Failed(c, i) ==
    \/ c.log[i].status = "raised"
    \/ run.served[FeedInfo(feeds, c.log[i].feed_id).url] = NoFeed

WellFormed(fs) == \A i \in 1..Len(fs) : fs[i].isdict

TaskCount(fs) == Cardinality({ i \in 1..Len(fs) : fs[i].url # "" })

\* C5: in a call in which the fetch or the processing of a feed fails, the
\* call still returns, every task has been awaited, the failed feed is no
\* key of the result, and every other feed whose pass returned new articles
\* is mapped to exactly these.
C5_Isolation ==
    (run.kind = "cycle" /\ run.call >= 1 /\ WellFormed(feeds)) =>
       LET c == run.first
       IN /\ c.status = "returned"
          /\ Len(c.log) = TaskCount(feeds)
          /\ \A i \in 1..Len(c.log) :
                Failed(c, i) =>
                   /\ c.log[i].feed_id \notin ResultKeys(c.results)
                   /\ \A j \in 1..Len(c.log) :
                         (j # i /\ c.log[j].status = "returned"
                               /\ c.log[j].articles # << >>)
                            => << c.log[j].feed_id, c.log[j].articles >>
                                  \in ResultSet(c.results)

\* The save raises in the first feed's pass, the second feed's articles are
\* returned.
C5_Witness ==
    /\ run.kind = "cycle" /\ run.call = 1
    /\ Len(run.first.log) = 2
    /\ run.first.log[1].status = "raised"
    /\ ResultKeys(run.first.results) = {"feed_2"}

\* C6: a pass over a fetched feed that returns, returns the articles of
\* exactly those of the first max_articles entries whose hash was not in the
\* index before the pass and is not the hash of an earlier entry, in the
\* feed's order; and all their hashes are then in the index.
Examined == Take(run.fetched, run.max_articles)
EntryHash(e) == generate_article_hash(EntryTitle(e), EntryLink(e))
NewPositions ==
    { i \in 1..Len(Examined) :
        /\ EntryHash(Examined[i]) \notin DOMAIN run.before
        /\ \A j \in 1..(i - 1) : EntryHash(Examined[j]) # EntryHash(Examined[i]) }
NthNew(n) ==
    CHOOSE i \in NewPositions :
       Cardinality({ j \in NewPositions : j < i }) = n - 1
ExpectedNew ==
    [n \in 1..Cardinality(NewPositions) |->
       [title |-> EntryTitle(Examined[NthNew(n)]),
        link |-> EntryLink(Examined[NthNew(n)]),
        feed_url |-> "u1"]]

C6_ExactlyTheNew ==
    (run.kind = "pass" /\ run.stage = "out" /\ run.fetched # NoFeed
       /\ run.r.status = "returned") =>
       /\ run.r.articles = ExpectedNew
       /\ \A i \in 1..Len(run.r.articles) :
             generate_article_hash(run.r.articles[i].title,
                                   run.r.articles[i].link)
                \in DOMAIN processed_articles

\* A feed longer than the cap with a repeated entry and a seen one: one
\* article comes back.
C6_Witness ==
    /\ run.kind = "pass" /\ run.stage = "out" /\ run.fetched # NoFeed
    /\ run.r.status = "returned"
    /\ Len(run.fetched) > run.max_articles
    /\ run.before # EmptyIndex
    /\ Len(run.r.articles) = 1
    /\ Cardinality(NewPositions) < Len(Examined)

\* C7: the mapping a call returns has no empty list, and a feed id is a key
\* of it exactly if awaiting that feed's task returned at least one article.
ReturnedOk(c) ==
    /\ \A e \in ResultSet(c.results) : e[2] # << >>
    /\ \A i \in 1..Len(c.log) :
          (c.log[i].status = "returned" /\ c.log[i].articles # << >>)
             <=> c.log[i].feed_id \in ResultKeys(c.results)
    /\ ResultKeys(c.results) \subseteq { c.log[i].feed_id : i \in 1..Len(c.log) }

C7_NoEmptyLists ==
    run.kind = "cycle" =>
       /\ run.first.status = "returned" => ReturnedOk(run.first)
       /\ run.second.status = "returned" => ReturnedOk(run.second)

\* One feed had new articles, the other was fetched and had none.
C7_Witness ==
    /\ run.kind = "cycle" /\ run.call = 1
    /\ run.first.status = "returned"
    /\ Len(run.first.log) = 2
    /\ run.first.log[1].status = "returned"
    /\ run.first.log[1].articles = << >>
    /\ run.served["u1"] # NoFeed
    /\ ResultKeys(run.first.results) = {"feed_2"}

\* C8: no hash is passed to mark_article_processed twice in one pass.
C8_MarkedOnce ==
    (run.kind = "pass" /\ run.stage = "out") =>
       \A i, j \in 1..Len(run.r.marks) :
          run.r.marks[i] = run.r.marks[j] => i = j

\* The feed lists one (title, link) twice and the pass marked it.
C8_Witness ==
    /\ run.kind = "pass" /\ run.stage = "out" /\ run.fetched # NoFeed
    /\ \E i, j \in 1..Len(Examined) :
          /\ i < j
          /\ Examined[i] = Examined[j]
          /\ EntryHash(Examined[i]) \in { run.r.marks[n] : n \in 1..Len(run.r.marks) }

\* C9: once a mark_article_processed or cleanup_old_processed_articles call
\* has finished (returned or raised), the index the file holds is the
\* in-memory index.
C9_WriteThrough ==
    (alive /\ persisted) => load_processed_articles(disk) = processed_articles

\* C10: whatever a cycle raises, the loop goes on: as long as the process
\* runs, the loop begins a cycle (calls check_all_feeds) again and again.
C10_LoopSurvives ==
    /\ []<>(cycles = 0 \/ ~alive)
    /\ []<>(cycles = 1 \/ ~alive)

\* The loop is in its back-off sleep after a cycle raised.
C10_Witness == alive /\ pc["loop"] = "backoff"

\* C11: however often start_feed_checking is called, only the task it
\* created last can execute cycle steps: a replaced task has ended or is
\* still waiting for its cancellation and never runs a check or a delivery
\* again; and the loop sleeps the interval that is configured.
C11_SingleLoop ==
    /\ superseded.cancel \/ superseded.pc \in {"none", "done"}
    /\ pc["loop"] = "sleep" => check_interval = interval

\* The replaced task has ended and the new loop sleeps a new interval.
C11_Witness ==
    /\ superseded.pc = "done" /\ superseded.at = "post"
    /\ pc["loop"] = "sleep"
    /\ check_interval = 60

C13_Prunes ==
    (run.kind = "cleanup" /\ run.stage = "out") =>
       /\ \A h \in DOMAIN run.before :
             /\ (~run.before[h].iso \/ run.before[h].t < now - run.days)
                   => h \notin DOMAIN processed_articles
             /\ (run.before[h].iso /\ run.before[h].t > now - run.days)
                   => /\ h \in DOMAIN processed_articles
                      /\ processed_articles[h] = run.before[h]
       /\ DOMAIN processed_articles \subseteq DOMAIN run.before
       /\ run.r.outcome = "ok" => disk = Json(processed_articles)

\* A returned cleanup that dropped an unparsable entry and kept a newer one.
C13_Witness ==
    /\ run.kind = "cleanup" /\ run.stage = "out" /\ run.r.outcome = "ok"
    /\ \E h, g \in DOMAIN run.before :
          /\ ~run.before[h].iso /\ h \notin DOMAIN processed_articles
          /\ run.before[g].iso /\ run.before[g].t > now - run.days
          /\ g \in DOMAIN processed_articles

\* C14: cleanup_old_processed_articles returns the number of entries it
\* removed: the size of the index before the call minus its size after.
C14_RemovedCount ==
    (run.kind = "cleanup" /\ run.stage = "out" /\ run.r.outcome = "ok") =>
       run.r.removed_count = Cardinality(DOMAIN run.before)
                               - Cardinality(DOMAIN processed_articles)

\* C15: constructing the store never raises: it yields an index, the empty
\* one when the file is absent, unreadable or unparsable, the stored one
\* otherwise; a path that is a directory is replaced by data.json inside it.
C15_LoadNeverRaises ==
    (run.kind = "load" /\ run.stage = "out") =>
       LET file == run.r.processed_articles_file
       IN /\ processed_articles \in StampedIndexes
          /\ run.fs[file].kind # "json" => processed_articles = EmptyIndex
          /\ run.fs[file].kind = "json"
                => processed_articles = run.fs[file].data
          /\ file = IF run.fs[DefaultFile].kind = "dir"
                    THEN PathJoin(DefaultFile, "data.json") ELSE DefaultFile

\* The configured path is a directory whose data.json is unparsable: the
\* store started empty on the redirected path.
C15_Witness ==
    /\ run.kind = "load" /\ run.stage = "out"
    /\ run.fs[DefaultFile].kind = "dir"
    /\ run.r.processed_articles_file = PathJoin(DefaultFile, "data.json")
    /\ run.fs[run.r.processed_articles_file].kind = "corrupt"
    /\ processed_articles = EmptyIndex

\* The tasks of p's check_all_feeds call whose fetch is in flight: awaiting
\* a coroutine object runs it there and then, so the task being awaited
\* and no other.  Unfinished: the tasks that have not completed.
InFlight(p) == IF pc[p] = "check" THEN {idx[p]} ELSE {}
Unfinished(p) == IF pc[p] = "check" THEN idx[p]..Len(tasks[p]) ELSE {}

\* C16: within a check_all_feeds call the fetches of all feeds with a URL
\* are in flight together: every task that has not completed is being
\* fetched.
C16_FanOut == \A p \in Procs : InFlight(p) = Unfinished(p)

\* C17: at no time are two save_processed_articles executions under way.
C17_SingleWriter ==
    run.kind = "write" => Cardinality(run.writers) <= 1

\* A coroutine is inside save_processed_articles while another one, whose
\* await has completed, waits for the event loop, and a third has saved.
C17_Witness ==
    /\ run.kind = "write"
    /\ \E w, v, u \in Writers :
          /\ run.writers = {w}
          /\ run.wpc[v] = "await"
          /\ run.wpc[u] = "idle"

\* C18: fetch_feed raises nothing: on a non-200 status, a network error, a
\* timeout or a parse error it returns None, and get_new_articles then
\* returns an empty list, marks nothing and leaves index and file alone.
C18_FetchNeverRaises ==
    (run.kind = "fetch" /\ run.stage = "out") =>
       /\ run.r.feed # FetchRaised
       /\ run.resp.kind # "ok" =>
             /\ run.r.feed = NoFeed
             /\ run.r.status = "returned"
             /\ run.r.articles = << >>
             /\ run.r.marks = << >>
             /\ processed_articles = run.before
             /\ disk = Json(run.before)

\* A fetch timed out against a non-empty index.
C18_Witness ==
    /\ run.kind = "fetch" /\ run.stage = "out"
    /\ run.resp.kind = "timeout"
    /\ run.r.feed = NoFeed
    /\ run.before # EmptyIndex

RECURSIVE IsSubseq(_, _)
\* a can be had from b by dropping elements
IsSubseq(a, b) ==
    IF a = << >> THEN TRUE
    ELSE IF b = << >> THEN FALSE
    ELSE IF Head(a) = Head(b) THEN IsSubseq(Tail(a), Tail(b))
    ELSE IsSubseq(a, Tail(b))

ExaminedArticles ==
    [i \in 1..Len(Examined) |->
       [title |-> EntryTitle(Examined[i]), link |-> EntryLink(Examined[i]),
        feed_url |-> "u1"]]

\* C19: the list of a pass has at most max_articles articles, taken from
\* the first max_articles entries of the feed in the feed's order; what the
\* pass marks are hashes of those entries only.
C19_CappedInOrder ==
    (run.kind = "pass" /\ run.stage = "out" /\ run.fetched # NoFeed) =>
       /\ Len(run.r.articles) <= run.max_articles
       /\ IsSubseq(run.r.articles, ExaminedArticles)
       /\ \A n \in 1..Len(run.r.marks) :
             \E i \in 1..Len(Examined) : run.r.marks[n] = EntryHash(Examined[i])

\* A feed one entry longer than the cap: the pass returned an article and
\* the last entry, a new one, was neither returned nor marked.
C19_Witness ==
    /\ run.kind = "pass" /\ run.stage = "out" /\ run.fetched # NoFeed
    /\ run.r.status = "returned"
    /\ Len(run.fetched) > run.max_articles
    /\ run.r.articles # << >>
    /\ LET last == run.fetched[Len(run.fetched)]
       IN /\ EntryHash(last) \notin DOMAIN processed_articles
          /\ \A i \in 1..Len(run.r.articles) :
                run.r.articles[i].title # EntryTitle(last)

AllPosted == [n \in 1..MaxPosts |-> TRUE]

\* Posts that fail change nothing about which articles are attempted: the
\* calls of post_article_to_channel are those of a delivery without failures.
PostFailuresIgnored ==
    (run.kind = "deliver" /\ run.stage = "out") =>
       run.r.attempts = Deliver(run.q, feeds, AllPosted, << >>).attempts

\* C20: when the post of one article fails in a cycle, every article of the
\* result mapping (the later ones of the same feed, those of every later
\* feed) still gets its call of post_article_to_channel.
C20_FailureDoesNotBlock ==
    (/\ run.kind = "deliver" /\ run.stage = "out"
     /\ \E n \in 1..Len(run.r.attempts) : ~run.posts[n])
       => run.r.attempts = Flatten(run.q)

----------------------------------------------------------------------------
\* the (title, link) keys of the articles of a list
KeysOf(as) == { << as[i].title, as[i].link >> : i \in 1..Len(as) }

\* The articles of p's cycle that wait for their post_article_to_channel
\* call (the head of the queue is in its call while pc[p] = "post"), and
\* the same after the step.
Waiting(p) ==
    KeysOf(IF pc[p] = "post" THEN Tail(Flatten(queue[p]))
           ELSE Flatten(queue[p]))

NotDropped(p) == Waiting(p) \subseteq KeysOf(Flatten(queue'[p]))

\* C21: every article check_all_feeds returns as new gets a call of
\* post_article_to_channel in its cycle: an article returned in a step is
\* queued for delivery by it, and while the process lives an article that
\* waits for its call keeps waiting or enters its call.
C21_AtLeastOnceAttempt ==
    [][ alive' =>
          /\ \A k \in ArticleKeys :
                emitted'[k] > emitted[k] =>
                   \E p \in Procs : k \in KeysOf(Flatten(queue'[p]))
          /\ \A p \in Procs : NotDropped(p) ]_vars

----------------------------------------------------------------------------
\* feed_check_loop begins a cycle in this step (line 71 onwards).
CycleBegins == alive' /\ cycles' # cycles

\* C22 (as amended): feed_check_loop begins a cycle only as its first step
\* or out of one of its two sleeps, with nothing of the previous cycle left
\* to fetch or to deliver: the sleep of the interval when the previous cycle
\* ran to its end, the fixed back-off of line 89 when it raised.
C22_FullCycle ==
    [][ CycleBegins =>
          /\ pc["loop"] \in {"start", "sleep", "backoff"}
          /\ queue["loop"] = << >>
          /\ results["loop"] = << >> ]_vars

\* A second cycle of the same task is running, after a first one found
\* articles and delivered them.
C22_Witness ==
    /\ alive /\ cycles = 0 /\ pc["loop"] = "check"
    /\ pc["cmd"] = "idle"
    /\ \A i \in 1..Len(feeds) : feeds[i].isdict /\ feeds[i].channel_id = "1"
    /\ \E k \in ArticleKeys : emitted[k] > 0

\* C22 (as stated): the next cycle begins only after the deliveries of the
\* previous one have finished and the interval has been slept.
C22_IntervalSlept ==
    [][ CycleBegins =>
          /\ pc["loop"] \in {"start", "sleep"}
          /\ queue["loop"] = << >>
          /\ results["loop"] = << >> ]_vars

----------------------------------------------------------------------------
\* The URLs of TestUrls with a host and the scheme http or https.
AcceptedUrls == {"http://h/f", "https://h/f"}

\* C23: test_feed_url never raises and gives a structured result: for a
\* URL validate_feed_url rejects, valid = false with a URL error and no
\* fetch; when the fetch gives no feed, valid = false with the unreachable
\* error; when the feed has no entries, valid = false with the no-entries
\* error; otherwise valid = true with the title and the number of entries.
C23_TestFeedUrl ==
    (run.kind = "test" /\ run.stage = "out") =>
       /\ ~run.r.raised
       /\ IF run.url \notin AcceptedUrls
          THEN /\ ~run.r.valid /\ ~run.r.fetched
               /\ run.r.error \in {ErrNoNetloc, ErrScheme, ErrUrlCheck}
          ELSE IF run.resp.kind # "ok"
          THEN ~run.r.valid /\ run.r.error = ErrUnreachable
          ELSE IF run.resp.entries = << >>
          THEN ~run.r.valid /\ run.r.error = ErrNoEntries
          ELSE /\ run.r.valid
               /\ run.r.error = NoError
               /\ run.r.title = (IF run.feed_title = Missing
                                 THEN "Unknown Feed" ELSE run.feed_title)
               /\ run.r.entries_count = Len(run.resp.entries)

\* A rejected URL whose fetch would have succeeded.
C23_Witness ==
    /\ run.kind = "test" /\ run.stage = "out"
    /\ run.url = "ftp://h/f"
    /\ run.resp.kind = "ok" /\ run.resp.entries # << >>
    /\ run.r.error = ErrScheme

----------------------------------------------------------------------------
\* the fingerprints of the articles of a list
HashesOf(as) ==
    { generate_article_hash(as[i].title, as[i].link) : i \in 1..Len(as) }

\* C24: a registration (test_feed_url and the rest of add_rss) leaves the
\* index and its file as they were, and the check cycle after a
\* registration returns every entry of the feed, within the cap, whose
\* fingerprint the index did not hold.
C24_ValidationKeepsIndex ==
    /\ [][ (run.kind = "register" /\ run'.adds # run.adds) =>
             /\ processed_articles' = processed_articles
             /\ disk' = disk ]_vars
    /\ [](  (run.kind = "register" /\ run.stage = "checked") =>
             \A i \in 1..Len(Take(run.entries, DefaultMaxArticles)) :
                EntryHash(run.entries[i]) \notin DOMAIN run.before
                  => EntryHash(run.entries[i])
                       \in HashesOf(Flatten(run.r.results)) )

\* A feed with entries was registered over an empty index, and the cycle
\* after it returned them.
C24_Witness ==
    /\ run.kind = "register" /\ run.stage = "checked"
    /\ run.entries # << >>
    /\ run.before = EmptyIndex
    /\ HashesOf(Flatten(run.r.results))
         = { EntryHash(run.entries[i]) : i \in 1..Len(run.entries) }

----------------------------------------------------------------------------
FeedIds(fs) == { fs[i].id : i \in 1..Len(fs) }

\* C28: a successful registration uses an id no registered feed has, and
\* the registry grows by one feed.
C28_NeverOverwrites ==
    [][ (/\ run.kind = "register"
         /\ run'.adds # run.adds
         /\ run'.stage = "added") =>
            /\ run'.feed_id \notin FeedIds(feeds)
            /\ Len(feeds') = Len(feeds) + 1 ]_vars

----------------------------------------------------------------------------
\* The fingerprints a step adds to the in-memory index.
NewlyMarked == DOMAIN processed_articles' \ DOMAIN processed_articles

\* C25: no article is marked seen without being emitted: a fingerprint a
\* step of the running process adds to the index is that of an article the
\* step puts into the results of its check_all_feeds call, or that the call
\* returns in this step.
C25_MarkedOnlyIfEmitted ==
    [][ (alive /\ alive') =>
          \A h \in NewlyMarked :
             \/ \E p \in Procs : h \in HashesOf(Flatten(results'[p]))
             \/ \E k \in ArticleKeys :
                   KeyHash(k) = h /\ emitted'[k] > emitted[k] ]_vars

----------------------------------------------------------------------------
\* The entry without title and link, which no start index of the two-call
\* harness holds, and its article key.
SharedEntry == [title |-> Missing, link |-> Missing]
SharedKey == << EntryTitle(SharedEntry), EntryLink(SharedEntry) >>

Carries(url) ==
    /\ run.served[url] # NoFeed
    /\ \E i \in 1..Len(run.served[url]) : run.served[url][i] = SharedEntry

\* the feed ids under which the results res hold the article key k
FeedsReturning(res, k) ==
    { res[i][1] : i \in { j \in 1..Len(res) : k \in KeysOf(res[j][2]) } }

\* C26: an entry two registered feeds carry is returned under exactly one
\* feed id over the check cycles, the feed whose pass examines it first,
\* and once.
C26_OneFeedId ==
    (/\ run.kind = "cycle" /\ run.call = 2
     /\ run.first.status = "returned" /\ run.second.status = "returned"
     /\ Carries("u1") /\ Carries("u2")) =>
        /\ FeedsReturning(run.first.results \o run.second.results, SharedKey)
             = {"feed_1"}
        /\ CountIn(run.first.results \o run.second.results, SharedKey) = 1

\* The part of C26 that does not depend on the article being returned at
\* all: it is never returned under two feed ids, and never twice.
AtMostOneFeedId ==
    (run.kind = "cycle" /\ Carries("u1") /\ Carries("u2")) =>
        /\ Cardinality(FeedsReturning(run.first.results
                                        \o run.second.results, SharedKey)) <= 1
        /\ CountIn(run.first.results \o run.second.results, SharedKey) <= 1

----------------------------------------------------------------------------
\* C27: the timestamp of a fingerprint is its first-seen time: no step
\* changes the value recorded for a fingerprint the index holds before and
\* after it.
C27_FirstSeenKept ==
    [][ \A h \in DOMAIN processed_articles \cap DOMAIN processed_articles' :
           processed_articles'[h] = processed_articles[h] ]_vars

\* A pass at time 1 has marked a fingerprint while one marked at time 0 is
\* still in the index with its time.
C27_Witness ==
    /\ alive /\ now = 1
    /\ \E h1, h2 \in DOMAIN processed_articles :
          /\ processed_articles[h1] = IsoFormat(0)
          /\ processed_articles[h2] = IsoFormat(1)

====
